---- MODULE Spec2Model ----
(***************************************************************************)
(* A model of check_all_answers.py: the exam answer checker with program   *)
(* (cohort) detection.  Text is kept as TLA+ strings; the string           *)
(* operations of the program (strip, lower, split, replace, substring      *)
(* tests, strptime parsing, difflib's SequenceMatcher) are computed on the *)
(* characters of those strings.                                            *)
(***************************************************************************)
EXTENDS Integers, Sequences, FiniteSets, TLC

VARIABLES
    \* ---- names_match applied to a pair of names -------------------------
    nmA, nmB, nmThreshold, nmOut,
    \* ---- cluster_by_date applied to a list of rows ----------------------
    clRows, clGap, clOut, clPrev,
    \* ---- get_group_sort_key applied to the keys of group_results --------
    goKeys, goSorted,
    \* ---- one run of main() ----------------------------------------------
    pc,                 \* position of main()
    csv,                \* the answers.csv of this run (None: no such file)
    roster,             \* the grouporder.txt of this run (None: no such file)
    rows, headers,      \* list(reader), list(rows[0].keys())
    name_field, timestamp_field, question_cols,
    idx_to_cluster, cluster_info,
    answer_key_idx, answer_key,
    group_definitions,
    filter_by_program, starting_name, start_idx,
    student_latest_idx,
    results, program_results, group_results,
    gradedIdx,          \* history: the row index behind each entry of results
    fileReport, consoleReport

nmVars == <<nmA, nmB, nmThreshold, nmOut>>
clVars == <<clRows, clGap, clOut, clPrev>>
goVars == <<goKeys, goSorted>>
mainVars == <<pc, csv, roster, rows, headers, name_field, timestamp_field,
              question_cols, idx_to_cluster, cluster_info, answer_key_idx,
              answer_key, group_definitions, filter_by_program, starting_name,
              start_idx, student_latest_idx, results, program_results,
              group_results, gradedIdx, fileReport, consoleReport>>
vars == <<nmVars, clVars, goVars, mainVars>>

None == "<None>"        \* Python's None, where the other values are strings
NoInt == 0 - 1000       \* Python's None, where the other values are integers
\* Python's None, where the other values are datetimes
NoDate == [year |-> 0, month |-> 0, day |-> 0, hour |-> 0, minute |-> 0, second |-> 0]
Idle == "<idle>"        \* value of the variables a specification does not use

(***************************************************************************)
(* Strings                                                                 *)
(***************************************************************************)
Chars(s) == [i \in 1..Len(s) |-> SubSeq(s, i, i)]

RECURSIVE Join(_, _)
Join(parts, sep) ==
    IF parts = <<>> THEN ""
    ELSE IF Len(parts) = 1 THEN parts[1]
    ELSE parts[1] \o sep \o Join(Tail(parts), sep)

Whitespace == {" ", "\t"}

Uppers == Chars("ABCDEFGHIJKLMNOPQRSTUVWXYZ")
Lowers == Chars("abcdefghijklmnopqrstuvwxyz")

LowerChar(c) ==
    IF \E i \in 1..26 : Uppers[i] = c
    THEN Lowers[CHOOSE i \in 1..26 : Uppers[i] = c]
    ELSE c

\* str.lower()
Lower(s) == Join([i \in 1..Len(s) |-> LowerChar(SubSeq(s, i, i))], "")

\* str.replace(old, new) for a one-character old
Replace(s, old, new) ==
    Join([i \in 1..Len(s) |-> IF SubSeq(s, i, i) = old THEN new ELSE SubSeq(s, i, i)], "")

RECURSIVE SplitWs(_, _, _, _)
SplitWs(s, i, cur, acc) ==
    IF i > Len(s) THEN (IF cur = "" THEN acc ELSE Append(acc, cur))
    ELSE IF SubSeq(s, i, i) \in Whitespace
         THEN SplitWs(s, i + 1, "", IF cur = "" THEN acc ELSE Append(acc, cur))
         ELSE SplitWs(s, i + 1, cur \o SubSeq(s, i, i), acc)

\* str.split(): the maximal runs of non-whitespace characters
Split(s) == SplitWs(s, 1, "", <<>>)

\* str.strip()
Strip(s) ==
    LET keep == {i \in 1..Len(s) : SubSeq(s, i, i) \notin Whitespace}
    IN  IF keep = {} THEN ""
        ELSE SubSeq(s, CHOOSE i \in keep : \A j \in keep : i <= j,
                       CHOOSE i \in keep : \A j \in keep : i >= j)

\* str.startswith(prefix)
StartsWith(s, prefix) ==
    Len(prefix) <= Len(s) /\ SubSeq(s, 1, Len(prefix)) = prefix

\* keyword in s
Contains(s, kw) ==
    \E i \in 1..(Len(s) - Len(kw) + 1) : SubSeq(s, i, i + Len(kw) - 1) = kw

(***************************************************************************)
(* Name Normalizer and Fuzzy Name Matcher                                  *)
(***************************************************************************)
normalize_name(name) == Join(Split(Lower(Replace(name, ",", " "))), " ")

get_name_parts(name) == Split(normalize_name(name))

\* length of the common run of a and b that starts at a[i], b[j] and stays
\* inside a[..ahi], b[..bhi]
RECURSIVE RunLen(_, _, _, _, _, _)
RunLen(a, b, i, j, ahi, bhi) ==
    IF i > ahi \/ j > bhi \/ a[i] # b[j] THEN 0
    ELSE 1 + RunLen(a, b, i + 1, j + 1, ahi, bhi)

\* block p = <<i, j>> is at least as good a choice as block q: longer, or as
\* long and earlier in a, or as long, at the same place in a and not later
\* in b
BetterBlock(a, b, ahi, bhi, p, q) ==
    \/ RunLen(a, b, p[1], p[2], ahi, bhi) > RunLen(a, b, q[1], q[2], ahi, bhi)
    \/ /\ RunLen(a, b, p[1], p[2], ahi, bhi) = RunLen(a, b, q[1], q[2], ahi, bhi)
       /\ (p[1] < q[1] \/ (p[1] = q[1] /\ p[2] <= q[2]))

BlockAt(a, b, ahi, bhi, best) == <<best[1], best[2], RunLen(a, b, best[1], best[2], ahi, bhi)>>

\* SequenceMatcher.find_longest_match (no junk: the tokens are far shorter
\* than the 200 elements at which autojunk starts): <<i, j, k>> for the
\* longest block, of those the one starting earliest in a, of those the one
\* starting earliest in b.  Positions are 1-based and the ranges inclusive.
find_longest_match(a, b, alo, ahi, blo, bhi) ==
    IF alo > ahi \/ blo > bhi THEN <<alo, blo, 0>>
    ELSE BlockAt(a, b, ahi, bhi,
                 CHOOSE p \in (alo..ahi) \X (blo..bhi) :
                     \A q \in (alo..ahi) \X (blo..bhi) : BetterBlock(a, b, ahi, bhi, p, q))

\* SequenceMatcher.get_matching_blocks, summed: the number of matched
\* characters.  m is the longest block of the range; the ranges to its left
\* and to its right are matched in turn.
RECURSIVE MatchedChars(_, _, _, _, _, _)
MatchedAround(a, b, alo, ahi, blo, bhi, m) ==
    IF m[3] = 0 THEN 0
    ELSE m[3]
         + (IF alo < m[1] /\ blo < m[2]
            THEN MatchedChars(a, b, alo, m[1] - 1, blo, m[2] - 1) ELSE 0)
         + (IF m[1] + m[3] <= ahi /\ m[2] + m[3] <= bhi
            THEN MatchedChars(a, b, m[1] + m[3], ahi, m[2] + m[3], bhi) ELSE 0)

MatchedChars(a, b, alo, ahi, blo, bhi) ==
    MatchedAround(a, b, alo, ahi, blo, bhi, find_longest_match(a, b, alo, ahi, blo, bhi))

\* 2.0 * matches / total >= threshold, the ratio of two empty strings being
\* 1.0; the threshold is the rational th[1] / th[2]
AtLeast(matches, total, th) ==
    IF total = 0 THEN th[2] >= th[1] ELSE 2 * matches * th[2] >= th[1] * total

RatioOfChars(a, b, th) == AtLeast(MatchedChars(a, b, 1, Len(a), 1, Len(b)), Len(a) + Len(b), th)

\* SequenceMatcher(None, s1, s2).ratio() >= threshold
RatioAtLeast(s1, s2, th) == RatioOfChars(Chars(s1), Chars(s2), th)

\* the body of names_match on the normalized names and their parts
PartsMatch(norm1, norm2, parts1, parts2, threshold) ==
    IF norm1 = norm2 THEN TRUE
    ELSE IF Len(parts1) < 2 \/ Len(parts2) < 2 THEN FALSE
    ELSE IF parts1[1] = parts2[Len(parts2)] /\ parts1[Len(parts1)] = parts2[1] THEN TRUE
    ELSE IF /\ RatioAtLeast(parts1[1], parts2[1], threshold)
            /\ RatioAtLeast(parts1[Len(parts1)], parts2[Len(parts2)], threshold) THEN TRUE
    ELSE IF /\ RatioAtLeast(parts1[1], parts2[Len(parts2)], threshold)
            /\ RatioAtLeast(parts1[Len(parts1)], parts2[1], threshold) THEN TRUE
    ELSE FALSE

names_match(name1, name2, threshold) ==
    PartsMatch(normalize_name(name1), normalize_name(name2),
               get_name_parts(name1), get_name_parts(name2), threshold)

DefaultThreshold == <<8, 10>>      \* threshold=0.8

(***************************************************************************)
(* Timestamps                                                              *)
(***************************************************************************)
Digits == Chars("0123456789")

IsDigits(s) == Len(s) > 0 /\ \A i \in 1..Len(s) : \E d \in 1..10 : Digits[d] = SubSeq(s, i, i)

DigitVal(c) == (CHOOSE d \in 1..10 : Digits[d] = c) - 1

RECURSIVE ParseNat(_)
ParseNat(s) ==
    IF Len(s) = 0 THEN 0
    ELSE 10 * ParseNat(SubSeq(s, 1, Len(s) - 1)) + DigitVal(SubSeq(s, Len(s), Len(s)))

DateSeparators == {"/", "-", ":", " "}

RECURSIVE SplitFields(_, _, _, _)
\* the fields of s between separator characters, empty fields included
SplitFields(s, i, cur, acc) ==
    IF i > Len(s) THEN Append(acc, cur)
    ELSE IF SubSeq(s, i, i) \in DateSeparators
         THEN SplitFields(s, i + 1, "", Append(acc, cur))
         ELSE SplitFields(s, i + 1, cur \o SubSeq(s, i, i), acc)

\* the separator characters of s from the i-th character on, in order
RECURSIVE SeparatorsFrom(_, _)
SeparatorsFrom(s, i) ==
    IF i > Len(s) THEN ""
    ELSE (IF SubSeq(s, i, i) \in DateSeparators THEN SubSeq(s, i, i) ELSE "")
         \o SeparatorsFrom(s, i + 1)

IsLeap(y) == (y % 4 = 0 /\ y % 100 # 0) \/ y % 400 = 0

DaysInMonth(y, m) ==
    IF m = 2 THEN (IF IsLeap(y) THEN 29 ELSE 28)
    ELSE IF m \in {4, 6, 9, 11} THEN 30 ELSE 31

\* the directives of the four formats: fmt.sep separates the date fields,
\* fmt.order is their order, fmt.time says whether ' %H:%M:%S' follows
formats == << [sep |-> "/", order |-> "mdy", time |-> TRUE],     \* '%m/%d/%Y %H:%M:%S'
              [sep |-> "-", order |-> "ymd", time |-> TRUE],     \* '%Y-%m-%d %H:%M:%S'
              [sep |-> "/", order |-> "mdy", time |-> FALSE],    \* '%m/%d/%Y'
              [sep |-> "-", order |-> "ymd", time |-> FALSE] >>  \* '%Y-%m-%d'

\* datetime(y, m, d, H, M, S), NoDate standing for ValueError
MakeDate(y, m, d, H, M, S) ==
    IF /\ y >= 1 /\ m \in 1..12 /\ d >= 1 /\ d <= DaysInMonth(y, m)
       /\ H <= 23 /\ M <= 59 /\ S <= 59
    THEN [year |-> y, month |-> m, day |-> d, hour |-> H, minute |-> M, second |-> S]
    ELSE NoDate

\* one or two digits
ShortNumber(x) == IsDigits(x) /\ Len(x) <= 2

YearField(f, fmt) == IF fmt.order = "mdy" THEN f[3] ELSE f[1]
MonthField(f, fmt) == IF fmt.order = "mdy" THEN f[1] ELSE f[2]
DayField(f, fmt) == IF fmt.order = "mdy" THEN f[2] ELSE f[3]

\* the datetime of the fields f, which stood between the separators seps
FieldsToDate(f, seps, fmt) ==
    IF seps # fmt.sep \o fmt.sep \o (IF fmt.time THEN " ::" ELSE "") THEN NoDate
    ELSE IF Len(f) # (IF fmt.time THEN 6 ELSE 3) THEN NoDate
    ELSE IF ~(/\ IsDigits(YearField(f, fmt)) /\ Len(YearField(f, fmt)) = 4
              /\ ShortNumber(MonthField(f, fmt)) /\ ShortNumber(DayField(f, fmt)))
    THEN NoDate
    ELSE IF fmt.time /\ ~(ShortNumber(f[4]) /\ ShortNumber(f[5]) /\ ShortNumber(f[6]))
    THEN NoDate
    ELSE MakeDate(ParseNat(YearField(f, fmt)), ParseNat(MonthField(f, fmt)),
                  ParseNat(DayField(f, fmt)),
                  IF fmt.time THEN ParseNat(f[4]) ELSE 0,
                  IF fmt.time THEN ParseNat(f[5]) ELSE 0,
                  IF fmt.time THEN ParseNat(f[6]) ELSE 0)

\* datetime.strptime(text, fmt), NoDate standing for ValueError.  Whitespace
\* in the format matches any run of whitespace; %m %d %H %M %S take one or
\* two digits and %Y exactly four; the datetime constructor then rejects a
\* day the month does not have and a second above 59.  (Not modelled: the
\* space-padded day and month that %d and %m also accept.)
strptime(text, fmt) ==
    FieldsToDate(SplitFields(Join(Split(text), " "), 1, "", <<>>),
                 SeparatorsFrom(Join(Split(text), " "), 1), fmt)

\* the first format that parses wins
RECURSIVE TryFormats(_, _)
FirstParsed(dt, text, k) == IF dt # NoDate THEN dt ELSE TryFormats(text, k + 1)

TryFormats(text, k) ==
    IF k > Len(formats) THEN NoDate
    ELSE FirstParsed(strptime(text, formats[k]), text, k)

parse_timestamp(timestamp_str) == TryFormats(Strip(timestamp_str), 1)

\* date.toordinal(): days since 0001-01-01, that day being 1
RECURSIVE DaysBeforeMonth(_, _)
DaysBeforeMonth(y, m) ==
    IF m = 1 THEN 0 ELSE DaysBeforeMonth(y, m - 1) + DaysInMonth(y, m - 1)

ToOrdinal(dt) ==
    (dt.year - 1) * 365 + ((dt.year - 1) \div 4) - ((dt.year - 1) \div 100)
    + ((dt.year - 1) \div 400) + DaysBeforeMonth(dt.year, dt.month) + dt.day

SecondOfDay(dt) == dt.hour * 3600 + dt.minute * 60 + dt.second

\* dt1 < dt2, dt1 <= dt2 on datetimes
DateLess(dt1, dt2) ==
    \/ ToOrdinal(dt1) < ToOrdinal(dt2)
    \/ ToOrdinal(dt1) = ToOrdinal(dt2) /\ SecondOfDay(dt1) < SecondOfDay(dt2)

DateLeq(dt1, dt2) == ~DateLess(dt2, dt1)

\* (curr - prev).days: timedelta normalises to 0 <= seconds < 86400, so the
\* days are the difference of the ordinals, less one when the second of the
\* day goes backwards
DeltaDays(curr, prev) ==
    (ToOrdinal(curr) - ToOrdinal(prev))
    - (IF SecondOfDay(curr) < SecondOfDay(prev) THEN 1 ELSE 0)

MonthNames == << "January", "February", "March", "April", "May", "June", "July",
                 "August", "September", "October", "November", "December" >>

\* strftime('%B'), strftime('%b'), strftime('%Y') (four-digit years)
FullMonth(dt) == MonthNames[dt.month]
AbbrevMonth(dt) == SubSeq(MonthNames[dt.month], 1, 3)
YearText(dt) == ToString(dt.year)

(***************************************************************************)
(* Temporal Clusterer                                                      *)
(***************************************************************************)
\* the greatest member of S, 0 for the empty set; the least, or default
Greatest(S) == IF S = {} THEN 0 ELSE CHOOSE i \in S : \A j \in S : i >= j
LeastOr(S, default) == IF S = {} THEN default ELSE CHOOSE i \in S : \A j \in S : i <= j

\* list with x put in after its first cut elements
InsertAfter(list, x, cut) == SubSeq(list, 1, cut) \o <<x>> \o SubSeq(list, cut + 1, Len(list))

\* x goes after every element of sorted that is not later than it
InsertByDate(sorted, x) ==
    InsertAfter(sorted, x, Greatest({i \in 1..Len(sorted) : DateLeq(sorted[i][1], x[1])}))

\* the list left in row order (what SortByDate must not be)
SortByDateSkipped(pairs) == pairs

\* list.sort(key=lambda x: x[0]): stable, ascending by datetime.  Each
\* element is <<dt, idx>>.
RECURSIVE SortByDate(_)
SortByDate(pairs) ==
    IF pairs = <<>> THEN <<>>
    ELSE InsertByDate(SortByDate(SubSeq(pairs, 1, Len(pairs) - 1)), pairs[Len(pairs)])

\* the step that also opens a cluster at a gap of exactly gap_days (what
\* ExtendClusters must not be)
ExtendClustersAtLeast(done, pair, gap, gap_days) ==
    IF gap >= gap_days
    THEN Append(done, <<pair>>)
    ELSE [done EXCEPT ![Len(done)] = Append(@, pair)]

\* one step of the walk: pair opens a new cluster when it is more than
\* gap_days after its predecessor and joins the current one otherwise
ExtendClusters(done, pair, gap, gap_days) ==
    IF gap > gap_days
    THEN Append(done, <<pair>>)
    ELSE [done EXCEPT ![Len(done)] = Append(@, pair)]

\* the walk over the sorted pairs: the clusters after the first i pairs
RECURSIVE WalkClusters(_, _, _)
WalkClusters(sorted, i, gap_days) ==
    IF i = 1 THEN << <<sorted[1]>> >>
    ELSE ExtendClusters(WalkClusters(sorted, i - 1, gap_days), sorted[i],
                        DeltaDays(sorted[i][1], sorted[i - 1][1]), gap_days)

\* min(dates), max(dates)
MinDate(cluster) ==
    cluster[CHOOSE i \in 1..Len(cluster) :
                \A j \in 1..Len(cluster) : DateLeq(cluster[i][1], cluster[j][1])][1]
MaxDate(cluster) ==
    cluster[CHOOSE i \in 1..Len(cluster) :
                \A j \in 1..Len(cluster) : DateLeq(cluster[j][1], cluster[i][1])][1]

program_name(start_date, end_date) ==
    IF start_date.month = end_date.month
    THEN FullMonth(start_date) \o " " \o YearText(start_date) \o " Program"
    ELSE AbbrevMonth(start_date) \o "-" \o AbbrevMonth(end_date) \o " "
         \o YearText(end_date) \o " Program"

\* cluster_info[cluster_num]
InfoOf(start_date, end_date, count) ==
    [name |-> program_name(start_date, end_date),
     start |-> start_date, end |-> end_date, count |-> count]

\* <<idx_to_cluster, cluster_info>> of the clusters
ClusterMaps(clusters) ==
    << [i \in UNION {{clusters[c][k][2] : k \in 1..Len(clusters[c])} : c \in 1..Len(clusters)} |->
           CHOOSE c \in 1..Len(clusters) : \E k \in 1..Len(clusters[c]) : clusters[c][k][2] = i],
       [c \in 1..Len(clusters) |->
           InfoOf(MinDate(clusters[c]), MaxDate(clusters[c]), Len(clusters[c]))] >>

\* dates_with_idx with <<dt, i>> added when row i has a timestamp dt
WithDate(dates_with_idx, dt, i) ==
    IF dt # NoDate THEN Append(dates_with_idx, <<dt, i>>) ELSE dates_with_idx

\* dates_with_idx after the first i rows
RECURSIVE ParseRows(_, _)
ParseRows(stamps, i) ==
    IF i = 0 THEN <<>>
    ELSE WithDate(ParseRows(stamps, i - 1),
                  IF stamps[i] = "" THEN NoDate ELSE parse_timestamp(stamps[i]), i)

\* the empty dict, which unpacks into no values at all
EmptyDict == <<>>

ClusterParsed(dates_with_idx, gap_weeks) ==
    IF dates_with_idx = <<>> THEN EmptyDict
    ELSE ClusterMaps(WalkClusters(SortByDate(dates_with_idx), Len(dates_with_idx),
                                  gap_weeks * 7))

\* cluster_by_date(rows, timestamp_field, gap_weeks); stamps[i] is
\* rows[i].get(timestamp_field, '').  Rows are numbered from 1 (the program's
\* idx + 1).  The value is <<idx_to_cluster, cluster_info>>, or the empty
\* dict when no timestamp parses.
cluster_by_date(stamps, gap_weeks) == ClusterParsed(ParseRows(stamps, Len(stamps)), gap_weeks)

(***************************************************************************)
(* Report Writer: the order of the group sections                          *)
(***************************************************************************)
SignedNumber(sign, body) ==
    IF ~IsDigits(body) THEN NoInt
    ELSE IF sign = "-" THEN 0 - ParseNat(body)
    ELSE ParseNat(body)

IntOfStripped(t) ==
    IF Len(t) > 0 /\ SubSeq(t, 1, 1) \in {"+", "-"}
    THEN SignedNumber(SubSeq(t, 1, 1), SubSeq(t, 2, Len(t)))
    ELSE SignedNumber("+", t)

\* int(text), NoInt standing for ValueError: an optional sign, then digits
\* (not modelled: underscores between digits)
int(text) == IntOfStripped(Strip(text))

UnparsedRank == 999

OrUnparsed(n) == IF n = NoInt THEN UnparsedRank ELSE n

\* int(words[1]), or 999 on IndexError and on ValueError
SecondWordNumber(words) == IF Len(words) < 2 THEN UnparsedRank ELSE OrUnparsed(int(words[2]))

get_group_sort_key(group_name) ==
    IF StartsWith(Lower(group_name), "group ")
    THEN <<0, SecondWordNumber(Split(group_name))>>
    ELSE IF StartsWith(Lower(group_name), "private ")
    THEN <<1, SecondWordNumber(Split(group_name))>>
    ELSE <<2, 0>>

\* tuple comparison k1 <= k2
KeyLeq(k1, k2) == k1[1] < k2[1] \/ (k1[1] = k2[1] /\ k1[2] <= k2[2])

\* x goes after every key of sorted that does not sort after it
InsertByKey(sorted, x) ==
    InsertAfter(sorted, x,
                Greatest({i \in 1..Len(sorted) :
                              KeyLeq(get_group_sort_key(sorted[i]), get_group_sort_key(x))}))

\* sorted(keys, key=get_group_sort_key): stable
RECURSIVE SortGroups(_)
SortGroups(keys) ==
    IF keys = <<>> THEN <<>>
    ELSE InsertByKey(SortGroups(SubSeq(keys, 1, Len(keys) - 1)), keys[Len(keys)])

(***************************************************************************)
(* Column Sniffer, Answer Key, Group Roster Loader                         *)
(***************************************************************************)
\* any(keyword in text for keyword in keywords)
ContainsAny(text, keywords) == \E k \in 1..Len(keywords) : Contains(text, keywords[k])

\* the first of preferred, else the first of others, else None
FirstOf(preferred, others) ==
    IF preferred # <<>> THEN preferred[1]
    ELSE IF others # <<>> THEN others[1]
    ELSE None

NameAmong(name_candidates) ==
    FirstOf(SelectSeq(name_candidates,
                      LAMBDA c : Contains(Lower(c), "first") \/ Contains(Lower(c), "last")),
            name_candidates)

detect_name_field(hdrs) == NameAmong(SelectSeq(hdrs, LAMBDA h : Contains(Lower(h), "name")))

timestamp_keywords == <<"timestamp", "date", "time", "submitted">>

detect_timestamp_field(hdrs) ==
    FirstOf(SelectSeq(hdrs, LAMBDA h : ContainsAny(Lower(h), timestamp_keywords)), <<>>)

skip_keywords == <<"timestamp", "score", "group", "private", "name", "email", "date", "time">>

detect_question_columns(hdrs) ==
    SelectSeq(hdrs, LAMBDA h : ~ContainsAny(Lower(h), skip_keywords))

answer_key_keywords == <<"testing", "answer", "key">>

\* find_answer_key(rows, name_field)[0]: the first row whose name holds a
\* keyword, NoInt for None.  Rows are numbered from 1 (the program's idx + 1).
find_answer_key(rws, field) ==
    LeastOr({i \in 1..Len(rws) : ContainsAny(Lower(Strip(rws[i][field])), answer_key_keywords)},
            NoInt)

\* find_student_index(rows, student_name, name_field): the first row whose
\* name matches, 0 (the program's -1) when none does
find_student_index(rws, student_name, field) ==
    LeastOr({i \in 1..Len(rws) :
                 names_match(Strip(rws[i][field]), student_name, DefaultThreshold)}, 0)

\* str.rstrip(':')
RECURSIVE RStripColon(_)
RStripColon(s) ==
    IF Len(s) > 0 /\ SubSeq(s, Len(s), Len(s)) = ":"
    THEN RStripColon(SubSeq(s, 1, Len(s) - 1)) ELSE s

\* groups[name] = []: a dict keeps the position of a key it already has
ResetGroup(groups, name) ==
    IF \E k \in 1..Len(groups) : groups[k].name = name
    THEN [k \in 1..Len(groups) |->
             IF groups[k].name = name THEN [groups[k] EXCEPT !.students = <<>>] ELSE groups[k]]
    ELSE Append(groups, [name |-> name, students |-> <<>>])

\* groups[current_group].append(line)
AddStudent(groups, name, line) ==
    [k \in 1..Len(groups) |->
        IF groups[k].name = name THEN [groups[k] EXCEPT !.students = Append(@, line)]
        ELSE groups[k]]

\* the loop of load_group_definitions over the lines from the i-th on; line
\* is the i-th line, stripped
RECURSIVE ReadRoster(_, _, _, _)
RosterLine(lines, i, current_group, groups, line) ==
    IF line = "" THEN ReadRoster(lines, i + 1, current_group, groups)
    ELSE IF StartsWith(Lower(line), "group ") \/ StartsWith(Lower(line), "private ")
    THEN ReadRoster(lines, i + 1, Strip(RStripColon(line)),
                    ResetGroup(groups, Strip(RStripColon(line))))
    ELSE IF current_group # None
    THEN ReadRoster(lines, i + 1, current_group, AddStudent(groups, current_group, line))
    ELSE ReadRoster(lines, i + 1, current_group, groups)

ReadRoster(lines, i, current_group, groups) ==
    IF i > Len(lines) THEN groups
    ELSE RosterLine(lines, i, current_group, groups, Strip(lines[i]))

\* load_group_definitions(): the dict as the list of its items, in order;
\* no file gives the empty dict
load_group_definitions(file) ==
    IF ~file.exists THEN <<>> ELSE ReadRoster(file.lines, 1, None, <<>>)

GroupNamed(groups, k) == IF k = 0 THEN "Ungrouped" ELSE groups[k].name

find_student_group(student_name, groups) ==
    GroupNamed(groups,
               LeastOr({k \in 1..Len(groups) :
                            \E m \in 1..Len(groups[k].students) :
                                names_match(student_name, groups[k].students[m],
                                            DefaultThreshold)}, 0))

(***************************************************************************)
(* Grading Engine                                                          *)
(***************************************************************************)
\* dict[k] = v
Put(dict, k, v) == [n \in (DOMAIN dict) \cup {k} |-> IF n = k THEN v ELSE dict[n]]

\* the update that keeps the first row of a name (what RecordLatest must not be)
RecordFirst(before, student_name, i, key) ==
    IF student_name = "" \/ i = key \/ normalize_name(student_name) \in DOMAIN before
    THEN before
    ELSE Put(before, normalize_name(student_name), i)

\* one turn of the first loop of main(): row i, whose stripped name is
\* student_name; key is the row of the answer key
RecordLatest(before, student_name, i, key) ==
    IF student_name = "" \/ i = key THEN before
    ELSE Put(before, normalize_name(student_name), i)

\* the first pass of main(): student_latest_idx after the rows first..i
RECURSIVE LatestUpTo(_, _, _, _, _)
LatestUpTo(rws, field, first, key, i) ==
    IF i < first THEN <<>>
    ELSE RecordLatest(LatestUpTo(rws, field, first, key, i - 1), Strip(rws[i][field]), i, key)

\* the questions compared without stripping the student's answer (what
\* MissedFrom must not be)
RECURSIVE MissedUnstripped(_, _, _, _)
MissedUnstripped(row, key, cols, i) ==
    IF i > Len(cols) THEN <<>>
    ELSE (IF row[cols[i]] # key[i] THEN <<ToString(i)>> ELSE <<>>)
         \o MissedUnstripped(row, key, cols, i + 1)

\* the missed question numbers of a row, as text: the questions from the
\* i-th on
RECURSIVE MissedFrom(_, _, _, _)
MissedFrom(row, key, cols, i) ==
    IF i > Len(cols) THEN <<>>
    ELSE (IF Strip(row[cols[i]]) # key[i] THEN <<ToString(i)>> ELSE <<>>)
         \o MissedFrom(row, key, cols, i + 1)

\* the result line of a student
ResultLine(student_name, missed_questions) ==
    IF missed_questions # <<>>
    THEN student_name \o ": " \o Join(missed_questions, ", ")
    ELSE student_name \o ": All correct!"

\* defaultdict(list)[k].append(x) on a dict kept as the list of its items
AppendTo(dict, k, x) ==
    IF \E n \in 1..Len(dict) : dict[n].key = k
    THEN [n \in 1..Len(dict) |->
             IF dict[n].key = k THEN [dict[n] EXCEPT !.items = Append(@, x)] ELSE dict[n]]
    ELSE Append(dict, [key |-> k, items |-> <<x>>])

\* lines 392-413: the result of row idx goes into results, into its program
\* and into its group
AddResult(acc, idx, student_program, student_name, result) ==
    [results |-> Append(acc.results, result),
     program_results |->
         IF student_program # NoInt
         THEN AppendTo(acc.program_results, student_program, result)
         ELSE acc.program_results,
     group_results |->
         IF group_definitions # <<>>
         THEN AppendTo(acc.group_results,
                       find_student_group(student_name, group_definitions), result)
         ELSE acc.group_results,
     graded |-> Append(acc.graded, idx)]

\* idx_to_cluster.get(idx)
ProgramOf(idx) == IF idx \in DOMAIN idx_to_cluster THEN idx_to_cluster[idx] ELSE NoInt

\* one turn of the second loop of main(): row idx
GradeRow(acc, idx) ==
    IF filter_by_program # NoInt /\ ProgramOf(idx) # filter_by_program THEN acc
    ELSE AddResult(acc, idx, ProgramOf(idx), Strip(rows[idx][name_field]),
                   ResultLine(Strip(rows[idx][name_field]),
                              MissedFrom(rows[idx], answer_key, question_cols, 1)))

\* the second pass of main() over order, the rows of student_latest_idx in
\* ascending order, from its n-th entry on; acc holds results,
\* program_results, group_results and the rows graded so far
RECURSIVE GradeFrom(_, _, _)
GradeFrom(order, n, acc) ==
    IF n > Len(order) THEN acc
    ELSE GradeFrom(order, n + 1, GradeRow(acc, order[n]))

\* the integers of S in ascending order
RECURSIVE Ascending(_)
Ascending(S) ==
    IF S = {} THEN <<>>
    ELSE <<LeastOr(S, 0)>> \o Ascending(S \ {LeastOr(S, 0)})

(***************************************************************************)
(* Report Writer                                                           *)
(***************************************************************************)
Pad2(n) == IF n < 10 THEN "0" \o ToString(n) ELSE ToString(n)

\* strftime('%m/%d/%Y')
ShortDate(dt) == Pad2(dt.month) \o "/" \o Pad2(dt.day) \o "/" \o YearText(dt)

\* the items of dict in the order of keys
ItemsInOrder(dict, keys) ==
    [n \in 1..Len(keys) |-> dict[CHOOSE m \in 1..Len(dict) : dict[m].key = keys[n]]]

\* the keys of a dict kept as the list of its items
Keys(dict) == [n \in 1..Len(dict) |-> dict[n].key]

\* one section per shown group: its name, its 'Students:' count, its lines
GroupSections(shown) ==
    [n \in 1..Len(shown) |->
        [title |-> shown[n].key, period |-> "",
         students |-> Len(shown[n].items), lines |-> shown[n].items]]

\* one section per program with results: name, period, count, lines
ProgramSections(shown) ==
    [n \in 1..Len(shown) |->
        [title |-> cluster_info[shown[n].key].name,
         period |-> ShortDate(cluster_info[shown[n].key].start) \o " to "
                    \o ShortDate(cluster_info[shown[n].key].end),
         students |-> Len(shown[n].items), lines |-> shown[n].items]]

\* the body with the programs tried before the groups (what ReportBody must
\* not be)
ReportBodyProgramFirst ==
    IF cluster_info # <<>> /\ filter_by_program = NoInt
    THEN [partition |-> "program",
          sections |-> ProgramSections(
              ItemsInOrder(program_results, Ascending({program_results[n].key :
                                                           n \in 1..Len(program_results)}))),
          lines |-> <<>>]
    ELSE IF group_definitions # <<>> /\ group_results # <<>>
    THEN [partition |-> "group",
          sections |-> GroupSections(
              SelectSeq(ItemsInOrder(group_results, SortGroups(Keys(group_results))),
                        LAMBDA g : g.items # <<>>)),
          lines |-> <<>>]
    ELSE [partition |-> "flat", sections |-> <<>>, lines |-> results]

\* what main() writes after the header, the same way to results.txt (lines
\* 428-468) and to the console (lines 475-514): sections by group, sections
\* by program, or the flat list
ReportBody ==
    IF group_definitions # <<>> /\ group_results # <<>>
    THEN [partition |-> "group",
          sections |-> GroupSections(
              SelectSeq(ItemsInOrder(group_results, SortGroups(Keys(group_results))),
                        LAMBDA g : g.items # <<>>)),
          lines |-> <<>>]
    ELSE IF cluster_info # <<>> /\ filter_by_program = NoInt
    THEN [partition |-> "program",
          sections |-> ProgramSections(
              ItemsInOrder(program_results, Ascending({program_results[n].key :
                                                           n \in 1..Len(program_results)}))),
          lines |-> <<>>]
    ELSE [partition |-> "flat", sections |-> <<>>, lines |-> results]

(***************************************************************************)
(* Bounds and input pools                                                  *)
(***************************************************************************)
MaxRows == 3            \* rows of a list that is reordered freely
MaxKeys == 3            \* keys of group_results

MaxCsvRows == 3         \* data rows of answers.csv

\* all sequences over S of length lo..hi
SeqsUpTo(S, lo, hi) == UNION {[1..n -> S] : n \in lo..hi}

NamePool == { "John Smith", "Smith, John", "Jon Smith", "  JOHN \t smith ",
              "Mary Jones", "John", "", "aaaba x", "abaab x", "x abaab" }

ThresholdPool == { <<8, 10>>, <<6, 10>>, <<1, 1>> }

StampPool == { "1/1/2024 23:00:00", "1/10/2024", "1/16/2024 01:00:00",
               "2024-01-16 23:00:00", "1/30/2024", " 2024-02-09 ", "3/1/2024",
               "2/30/2024", "" }

GapPool == {1, 2}

LabelPool == { "group 1", "Group 2", "group 10", "group 1000", "group A",
               "group 999", "PRIVATE 1", "private 2", "private x", "Ungrouped" }

\* a form that received one submission every 14 days from 20 January 2024 to
\* 4 January 2025
Fortnightly ==
    << "1/20/2024", "2/3/2024", "2/17/2024", "3/2/2024", "3/16/2024",
       "3/30/2024", "4/13/2024", "4/27/2024", "5/11/2024", "5/25/2024",
       "6/8/2024", "6/22/2024", "7/6/2024", "7/20/2024", "8/3/2024",
       "8/17/2024", "8/31/2024", "9/14/2024", "9/28/2024", "10/12/2024",
       "10/26/2024", "11/9/2024", "11/23/2024", "12/7/2024", "12/21/2024",
       "1/4/2025" >>

\* the header rows of answers.csv: with and without a timestamp column,
\* without a name column, without a question column
LayoutPool == { <<"Timestamp", "Name", "Q1", "Q2">>,
                <<"Name", "Q1", "Q2">>,
                <<"Timestamp", "Q1", "Q2">>,
                <<"Timestamp", "Name", "Score">> }

Submission(stamp, name, q1, q2) ==
    ("Timestamp" :> stamp @@ "Name" :> name @@ "Q1" :> q1 @@ "Q2" :> q2 @@ "Score" :> "")

SubmissionPool ==
    { Submission("", "Answer Key", "A", "b "),
      Submission("1/10/2024", "John Smith", " A", "b"),
      Submission("3/1/2024", "Smith, John", "a", "b"),
      Submission("", " john  SMITH ", "A", ""),
      Submission("2/30/2024", "  ", "A", "b"),
      Submission("3/1/2024", "Mary Jones", "B", "c") }

\* the row csv.DictReader makes of a submission under a header row
RowOf(layout, sub) == [h \in {layout[k] : k \in 1..Len(layout)} |-> sub[h]]

CsvPool ==
    {[exists |-> FALSE, headers |-> <<>>, rows |-> <<>>]}
    \cup {[exists |-> TRUE, headers |-> layout,
           rows |-> [i \in 1..Len(subs) |-> RowOf(layout, subs[i])]] :
             layout \in LayoutPool, subs \in SeqsUpTo(SubmissionPool, 0, MaxCsvRows)}

\* no grouporder.txt, and one whose first student comes before any header
RosterPool ==
    { [exists |-> FALSE, lines |-> <<>>],
      [exists |-> TRUE,
       lines |-> <<"John Smith", "", "PRIVATE 1", "Mary Jones", "", "Group 1:", " Jon Smith">>] }

\* what the user types at the two prompts
ChoicePool == {"", "0", " 2", "x"}
StartingPool == {"", " Smith John "}

(***************************************************************************)
(* Idle values of the variables a specification does not use               *)
(***************************************************************************)
NamesIdle == nmA = Idle /\ nmB = Idle /\ nmThreshold = Idle /\ nmOut = Idle
ClusterIdle == clRows = Idle /\ clGap = Idle /\ clOut = Idle /\ clPrev = Idle
GroupsIdle == goKeys = Idle /\ goSorted = Idle
MainIdle ==
    /\ pc = Idle /\ csv = Idle /\ roster = Idle /\ rows = Idle /\ headers = Idle
    /\ name_field = Idle /\ timestamp_field = Idle /\ question_cols = Idle
    /\ idx_to_cluster = Idle /\ cluster_info = Idle /\ answer_key_idx = Idle
    /\ answer_key = Idle /\ group_definitions = Idle /\ filter_by_program = Idle
    /\ starting_name = Idle /\ start_idx = Idle /\ student_latest_idx = Idle
    /\ results = Idle /\ program_results = Idle /\ group_results = Idle
    /\ gradedIdx = Idle /\ fileReport = Idle /\ consoleReport = Idle

(***************************************************************************)
(* names_match on a pair of names                                          *)
(***************************************************************************)
NotRun == <<>>          \* no result yet

InitNames ==
    /\ nmA \in NamePool /\ nmB \in NamePool /\ nmThreshold \in ThresholdPool
    /\ nmOut = NotRun
    /\ ClusterIdle /\ GroupsIdle /\ MainIdle

\* names_match(A, B, t) and names_match(B, A, t)
MatchNames ==
    /\ nmOut = NotRun
    /\ nmOut' = <<names_match(nmA, nmB, nmThreshold),
                   names_match(nmB, nmA, nmThreshold)>>
    /\ UNCHANGED <<nmA, nmB, nmThreshold, clVars, goVars, mainVars>>

NextNames == MatchNames
SpecNames == InitNames /\ [][NextNames]_vars

(***************************************************************************)
(* cluster_by_date on a list of rows                                       *)
(***************************************************************************)
\* what a clustering says about the records themselves: per cohort number,
\* the contents of its rows and its start, end and count
ContentView(stamps, out) ==
    IF out = EmptyDict THEN <<>>
    ELSE [c \in 1..Len(out[2]) |->
            [members |-> {stamps[i] : i \in {j \in DOMAIN out[1] : out[1][j] = c}},
             start |-> out[2][c].start,
             end |-> out[2][c].end,
             count |-> out[2][c].count]]

InitCluster ==
    /\ clRows \in SeqsUpTo(StampPool, 0, MaxRows) \cup {Fortnightly}
    /\ clGap \in GapPool
    /\ clOut = NotRun
    /\ clPrev = NotRun
    /\ NamesIdle /\ GroupsIdle /\ MainIdle

\* cluster_by_date(rows, timestamp_field, gap_weeks)
Cluster ==
    /\ clOut = NotRun
    /\ clOut' = <<cluster_by_date(clRows, clGap)>>
    /\ UNCHANGED <<clRows, clGap, clPrev, nmVars, goVars, mainVars>>

\* the same rows in another order: two neighbouring rows change places
SwapRows(i) ==
    /\ clOut # NotRun
    /\ Len(clRows) <= MaxRows
    /\ i \in 1..(Len(clRows) - 1)
    /\ clRows' = [clRows EXCEPT ![i] = clRows[i + 1], ![i + 1] = clRows[i]]
    /\ clPrev' = <<ContentView(clRows, clOut[1])>>
    /\ clOut' = NotRun
    /\ UNCHANGED <<clGap, nmVars, goVars, mainVars>>

\* the same rows in another order: last row first
ReverseRows ==
    /\ clOut # NotRun
    /\ Len(clRows) > MaxRows
    /\ clRows' = [i \in 1..Len(clRows) |-> clRows[Len(clRows) + 1 - i]]
    /\ clPrev' = <<ContentView(clRows, clOut[1])>>
    /\ clOut' = NotRun
    /\ UNCHANGED <<clGap, nmVars, goVars, mainVars>>

NextCluster ==
    \/ Cluster
    \/ \E i \in 1..MaxRows : SwapRows(i)
    \/ ReverseRows
SpecCluster == InitCluster /\ [][NextCluster]_vars

(***************************************************************************)
(* the order of the group sections, on the keys of group_results           *)
(***************************************************************************)
InitGroups ==
    /\ goKeys \in {k \in SeqsUpTo(LabelPool, 1, MaxKeys) :
                       \A i, j \in 1..Len(k) : i # j => k[i] # k[j]}
    /\ goSorted = NotRun
    /\ NamesIdle /\ ClusterIdle /\ MainIdle

\* sorted(group_results.keys(), key=get_group_sort_key)
SortSections ==
    /\ goSorted = NotRun
    /\ goSorted' = SortGroups(goKeys)
    /\ UNCHANGED <<goKeys, nmVars, clVars, mainVars>>

NextGroups == SortSections
SpecGroups == InitGroups /\ [][NextGroups]_vars

(***************************************************************************)
(* One run of main()                                                       *)
(***************************************************************************)
NotWritten == <<>>

Init ==
    /\ pc = "read_csv"
    /\ csv \in CsvPool
    /\ roster \in RosterPool
    /\ rows = <<>> /\ headers = <<>>
    /\ name_field = None /\ timestamp_field = None /\ question_cols = <<>>
    /\ idx_to_cluster = <<>> /\ cluster_info = <<>>
    /\ answer_key_idx = NoInt /\ answer_key = <<>>
    /\ group_definitions = <<>>
    /\ filter_by_program = NoInt /\ starting_name = "" /\ start_idx = NoInt
    /\ student_latest_idx = <<>>
    /\ results = <<>> /\ program_results = <<>> /\ group_results = <<>>
    /\ gradedIdx = <<>>
    /\ fileReport = NotWritten /\ consoleReport = NotWritten
    /\ NamesIdle /\ ClusterIdle /\ GroupsIdle

files == <<csv, roster>>

\* lines 239-251: read answers.csv; stop when it is missing or has no rows
ReadCsv ==
    /\ pc = "read_csv"
    /\ IF ~csv.exists \/ csv.rows = <<>>
       THEN pc' = "aborted" /\ UNCHANGED <<rows, headers>>
       ELSE pc' = "detect_name" /\ rows' = csv.rows /\ headers' = csv.headers
    /\ UNCHANGED <<files, name_field, timestamp_field, question_cols, idx_to_cluster,
                   cluster_info, answer_key_idx, answer_key, group_definitions,
                   filter_by_program, starting_name, start_idx, student_latest_idx,
                   results, program_results, group_results, gradedIdx, fileReport,
                   consoleReport, nmVars, clVars, goVars>>

\* lines 253-263: find the name column; stop when there is none
NameFound(field) ==
    /\ name_field' = field
    /\ pc' = IF field = None THEN "aborted" ELSE "cluster"

DetectName ==
    /\ pc = "detect_name"
    /\ NameFound(detect_name_field(headers))
    /\ UNCHANGED <<files, rows, headers, timestamp_field, question_cols, idx_to_cluster,
                   cluster_info, answer_key_idx, answer_key, group_definitions,
                   filter_by_program, starting_name, start_idx, student_latest_idx,
                   results, program_results, group_results, gradedIdx, fileReport,
                   consoleReport, nmVars, clVars, goVars>>

\* lines 265-283: find the timestamp column and cluster the rows.  The
\* assignment idx_to_cluster, cluster_info = cluster_by_date(...) unpacks two
\* values; the empty dict has none, and the ValueError ends the run.
Unpack(ret) ==
    IF Len(ret) # 2
    THEN pc' = "crashed" /\ UNCHANGED <<idx_to_cluster, cluster_info>>
    ELSE /\ pc' = "detect_questions"
         /\ idx_to_cluster' = ret[1]
         /\ cluster_info' = ret[2]

ClusterBy(field) ==
    /\ timestamp_field' = field
    /\ IF field = None
       THEN pc' = "detect_questions" /\ UNCHANGED <<idx_to_cluster, cluster_info>>
       ELSE Unpack(cluster_by_date([i \in 1..Len(rows) |-> rows[i][field]], 2))

ClusterPrograms ==
    /\ pc = "cluster"
    /\ ClusterBy(detect_timestamp_field(headers))
    /\ UNCHANGED <<files, rows, headers, name_field, question_cols,
                   answer_key_idx, answer_key, group_definitions,
                   filter_by_program, starting_name, start_idx, student_latest_idx,
                   results, program_results, group_results, gradedIdx, fileReport,
                   consoleReport, nmVars, clVars, goVars>>

\* lines 285-293: find the question columns; stop when there is none
QuestionsFound(cols) ==
    /\ question_cols' = cols
    /\ pc' = IF cols = <<>> THEN "aborted" ELSE "find_key"

DetectQuestions ==
    /\ pc = "detect_questions"
    /\ QuestionsFound(detect_question_columns(headers))
    /\ UNCHANGED <<files, rows, headers, name_field, timestamp_field, idx_to_cluster,
                   cluster_info, answer_key_idx, answer_key, group_definitions,
                   filter_by_program, starting_name, start_idx, student_latest_idx,
                   results, program_results, group_results, gradedIdx, fileReport,
                   consoleReport, nmVars, clVars, goVars>>

\* lines 295-302: find the answer key row; stop when there is none
KeyFound(idx) ==
    /\ answer_key_idx' = idx
    /\ pc' = IF idx = NoInt THEN "aborted" ELSE "load_groups"

FindAnswerKey ==
    /\ pc = "find_key"
    /\ KeyFound(find_answer_key(rows, name_field))
    /\ UNCHANGED <<files, rows, headers, name_field, timestamp_field, question_cols,
                   idx_to_cluster, cluster_info, answer_key, group_definitions,
                   filter_by_program, starting_name, start_idx, student_latest_idx,
                   results, program_results, group_results, gradedIdx, fileReport,
                   consoleReport, nmVars, clVars, goVars>>

\* lines 304-320: load grouporder.txt and extract the answer key
LoadGroups ==
    /\ pc = "load_groups"
    /\ group_definitions' = load_group_definitions(roster)
    /\ answer_key' = [i \in 1..Len(question_cols) |->
                         Strip(rows[answer_key_idx][question_cols[i]])]
    /\ pc' = "ask_program"
    /\ UNCHANGED <<files, rows, headers, name_field, timestamp_field, question_cols,
                   idx_to_cluster, cluster_info, answer_key_idx,
                   filter_by_program, starting_name, start_idx, student_latest_idx,
                   results, program_results, group_results, gradedIdx, fileReport,
                   consoleReport, nmVars, clVars, goVars>>

\* filter_by_program after the user typed typed: None for Enter, '0', what
\* is not a number and what is not a detected program
KnownProgram(number) == IF number \in 1..Len(cluster_info) THEN number ELSE NoInt

ChosenProgram(choice) ==
    IF choice = "" \/ choice = "0" THEN NoInt ELSE KnownProgram(int(choice))

ProgramChoice(typed) == ChosenProgram(Strip(typed))

\* lines 322-343: ask for a program to filter by, when programs were found
AskProgram ==
    /\ pc = "ask_program"
    /\ IF cluster_info # <<>>
       THEN \E typed \in ChoicePool : filter_by_program' = ProgramChoice(typed)
       ELSE filter_by_program' = NoInt
    /\ pc' = "ask_start"
    /\ UNCHANGED <<files, rows, headers, name_field, timestamp_field, question_cols,
                   idx_to_cluster, cluster_info, answer_key_idx, answer_key,
                   group_definitions, starting_name, start_idx, student_latest_idx,
                   results, program_results, group_results, gradedIdx, fileReport,
                   consoleReport, nmVars, clVars, goVars>>

\* lines 345-360: ask for the student to start from; start at the first row
\* when nothing was typed or nobody matches
\* the first row when nobody matches
FoundOrFirst(found) == IF found = 0 THEN 1 ELSE found

StartFrom(name) ==
    /\ starting_name' = name
    /\ start_idx' = IF name = "" THEN 1
                    ELSE FoundOrFirst(find_student_index(rows, name, name_field))

AskStart ==
    /\ pc = "ask_start"
    /\ \E typed \in StartingPool : StartFrom(Strip(typed))
    /\ pc' = "first_pass"
    /\ UNCHANGED <<files, rows, headers, name_field, timestamp_field, question_cols,
                   idx_to_cluster, cluster_info, answer_key_idx, answer_key,
                   group_definitions, filter_by_program, student_latest_idx,
                   results, program_results, group_results, gradedIdx, fileReport,
                   consoleReport, nmVars, clVars, goVars>>

\* lines 362-375: the latest row of every normalized name
FirstPass ==
    /\ pc = "first_pass"
    /\ student_latest_idx' = LatestUpTo(rows, name_field, start_idx, answer_key_idx, Len(rows))
    /\ pc' = "second_pass"
    /\ UNCHANGED <<files, rows, headers, name_field, timestamp_field, question_cols,
                   idx_to_cluster, cluster_info, answer_key_idx, answer_key,
                   group_definitions, filter_by_program, starting_name, start_idx,
                   results, program_results, group_results, gradedIdx, fileReport,
                   consoleReport, nmVars, clVars, goVars>>

Graded(out) ==
    /\ results' = out.results
    /\ program_results' = out.program_results
    /\ group_results' = out.group_results
    /\ gradedIdx' = out.graded

\* lines 377-413: grade the latest row of every student, in row order
SecondPass ==
    /\ pc = "second_pass"
    /\ Graded(GradeFrom(Ascending({student_latest_idx[n] : n \in DOMAIN student_latest_idx}),
                         1, [results |-> <<>>, program_results |-> <<>>,
                             group_results |-> <<>>, graded |-> <<>>]))
    /\ pc' = "write_file"
    /\ UNCHANGED <<files, rows, headers, name_field, timestamp_field, question_cols,
                   idx_to_cluster, cluster_info, answer_key_idx, answer_key,
                   group_definitions, filter_by_program, starting_name, start_idx,
                   student_latest_idx, fileReport, consoleReport, nmVars, clVars, goVars>>

\* the header lines of results.txt
ReportHeader ==
    [name_column |-> name_field,
     questions |-> Len(question_cols),
     filtered_by |-> IF filter_by_program # NoInt
                     THEN cluster_info[filter_by_program].name ELSE None,
     starting_from |-> IF starting_name # "" THEN starting_name ELSE None,
     total |-> Len(results)]

\* lines 415-468: write results.txt
WriteResults ==
    /\ pc = "write_file"
    /\ fileReport' = <<[header |-> ReportHeader, body |-> ReportBody]>>
    /\ pc' = "display"
    /\ UNCHANGED <<files, rows, headers, name_field, timestamp_field, question_cols,
                   idx_to_cluster, cluster_info, answer_key_idx, answer_key,
                   group_definitions, filter_by_program, starting_name, start_idx,
                   student_latest_idx, results, program_results, group_results,
                   gradedIdx, consoleReport, nmVars, clVars, goVars>>

\* lines 470-519: print the results and the total
DisplayResults ==
    /\ pc = "display"
    /\ consoleReport' = <<[body |-> ReportBody, total |-> Len(results)]>>
    /\ pc' = "done"
    /\ UNCHANGED <<files, rows, headers, name_field, timestamp_field, question_cols,
                   idx_to_cluster, cluster_info, answer_key_idx, answer_key,
                   group_definitions, filter_by_program, starting_name, start_idx,
                   student_latest_idx, results, program_results, group_results,
                   gradedIdx, fileReport, nmVars, clVars, goVars>>

Next ==
    \/ ReadCsv
    \/ DetectName
    \/ ClusterPrograms
    \/ DetectQuestions
    \/ FindAnswerKey
    \/ LoadGroups
    \/ AskProgram
    \/ AskStart
    \/ FirstPass
    \/ SecondPass
    \/ WriteResults
    \/ DisplayResults

Spec == Init /\ [][Next]_vars

(***************************************************************************)
(* Properties of cluster_by_date                                           *)
(***************************************************************************)
\* the parsed timestamp of every row of clRows (NoDate: none)
Stamps == [i \in 1..Len(clRows) |-> IF clRows[i] = "" THEN NoDate ELSE parse_timestamp(clRows[i])]

\* the rows of clRows whose timestamp parses
Parseable == {i \in 1..Len(clRows) : Stamps[i] # NoDate}

\* seconds from 1 January 2024 00:00:00 to dt
SecondsSince2024(dt) ==
    (ToOrdinal(dt) - ToOrdinal([year |-> 2024, month |-> 1, day |-> 1])) * 86400
    + SecondOfDay(dt)

\* the second of the timestamp of each of the first n rows (0: no timestamp)
RECURSIVE SecondsOfRows(_)
SecondsOfRows(n) ==
    IF n = 0 THEN <<>>
    ELSE Append(SecondsOfRows(n - 1),
                IF Stamps[n] = NoDate THEN 0 ELSE SecondsSince2024(Stamps[n]))

\* the rows in P, at[i] being the second of row i's timestamp, are numbered
\* by cohort as the gaps between neighbours in timestamp order demand
FollowsGaps(at, P, cohort, N, gap_days) ==
    LET \* i and j follow one another in ascending timestamp order
        Adjacent(i, j) == /\ i # j
                          /\ at[i] <= at[j]
                          /\ ~\E k \in P : at[i] < at[k] /\ at[k] < at[j]
        \* the whole days from row i's timestamp to row j's
        WholeDays(i, j) == (at[j] - at[i]) \div 86400
    IN  /\ DOMAIN cohort = P
        /\ {cohort[i] : i \in P} = 1..N
        /\ \A i \in P : (\A j \in P : at[i] <= at[j]) => cohort[i] = 1
        /\ \A i, j \in P :
               Adjacent(i, j) =>
                   /\ cohort[j] = cohort[i] <=> WholeDays(i, j) <= gap_days
                   /\ cohort[j] = cohort[i] + 1 <=> WholeDays(i, j) > gap_days

\* C1: cluster_by_date gives every row with a parseable timestamp exactly one
\* cohort number in 1..N, every number being used and the earliest row
\* getting 1; two rows adjacent in timestamp order share a number exactly
\* when they are at most gap_weeks*7 whole days apart, and the later has the
\* earlier's number plus 1 exactly when they are further apart.
C1_CohortsFollowGaps ==
    clOut # NotRun =>
        IF clOut[1] = EmptyDict THEN Parseable = {}
        ELSE FollowsGaps(SecondsOfRows(Len(clRows)), Parseable,
                         clOut[1][1], Len(clOut[1][2]), clGap * 7)

\* the example of the specification, rows out of order and the first one late
\* in its day: Jan 1 and Jan 10 share cohort 1, Mar 1 is cohort 2
C1_Witness ==
    /\ clRows = <<"3/1/2024", "1/1/2024 23:00:00", "1/10/2024">>
    /\ clGap = 2
    /\ clOut # NotRun
    /\ clOut[1][1] = (1 :> 2 @@ 2 :> 1 @@ 3 :> 1)

\* C8: the cohorts do not depend on the order of the rows: reordering the
\* same rows leaves the number of cohorts, the records in each cohort (by
\* content) and each cohort's number, start, end and count unchanged.
C8_OrderInvariant ==
    (clOut # NotRun /\ clPrev # NotRun) => ContentView(clRows, clOut[1]) = clPrev[1]

\* three rows that were clustered, reordered and clustered again, in two
\* cohorts, the rows not in timestamp order
C8_Witness ==
    /\ clOut # NotRun /\ clPrev # NotRun
    /\ Len(clRows) = 3 /\ Parseable = {1, 2, 3}
    /\ Len(clPrev[1]) = 2
    /\ DateLess(Stamps[2], Stamps[1])

\* C9: a cohort is labelled '{Month} {Year} Program' exactly when its start
\* and end are in the same month of the same year, and otherwise
\* '{StartMonthAbbrev}-{EndMonthAbbrev} {EndYear} Program'.
C9_LabelByCalendarMonth ==
    (clOut # NotRun /\ clOut[1] # EmptyDict) =>
        \A c \in 1..Len(clOut[1][2]) :
            LET info == clOut[1][2][c]
                sameMonth == /\ info.start.year = info.end.year
                             /\ info.start.month = info.end.month
            IN  /\ info.name = FullMonth(info.start) \o " " \o YearText(info.start) \o " Program"
                       <=> sameMonth
                /\ ~sameMonth =>
                       info.name = AbbrevMonth(info.start) \o "-" \o AbbrevMonth(info.end)
                                   \o " " \o YearText(info.end) \o " Program"

(***************************************************************************)
(* Properties of names_match                                               *)
(***************************************************************************)
\* C7: names_match is symmetric: names_match(A, B, t) = names_match(B, A, t)
\* for all names A and B and every threshold t.
C7_Symmetric == nmOut # NotRun => nmOut[1] = nmOut[2]

(***************************************************************************)
(* Properties of the order of the group sections                           *)
(***************************************************************************)
\* 0 for a 'group ...' label, 1 for a 'private ...' label, 2 for the rest
LabelClass(label) ==
    IF StartsWith(Lower(label), "group ") THEN 0
    ELSE IF StartsWith(Lower(label), "private ") THEN 1
    ELSE 2

\* the number of a label parses
NumberParses(label) == Len(Split(label)) >= 2 /\ int(Split(label)[2]) # NoInt

LabelNumber(label) == int(Split(label)[2])

\* C10: the sections come in the order: 'group' labels, then 'private'
\* labels, then the rest; within the 'group' class and within the 'private'
\* class the labels whose number parses come in ascending number, and every
\* label whose number does not parse comes after every label whose number
\* does, whatever that number's value.
C10_UnparsedAfterParsed ==
    goSorted # NotRun =>
        \A i, j \in 1..Len(goSorted) :
            i < j =>
                /\ LabelClass(goSorted[i]) <= LabelClass(goSorted[j])
                /\ (LabelClass(goSorted[i]) = LabelClass(goSorted[j]) /\ LabelClass(goSorted[i]) < 2) =>
                       /\ (NumberParses(goSorted[i]) /\ NumberParses(goSorted[j])) =>
                              LabelNumber(goSorted[i]) <= LabelNumber(goSorted[j])
                       /\ ~(~NumberParses(goSorted[i]) /\ NumberParses(goSorted[j]))

(***************************************************************************)
(* Properties of a run of main()                                           *)
(***************************************************************************)
\* the second pass is over
Graded2 == pc \in {"write_file", "display", "done"}

\* the run is over: it finished, it returned early, or it raised
Ended == pc \in {"done", "aborted", "crashed"}

\* the stripped name of row i
NameAt(i) == Strip(rows[i][name_field])

\* the rows that were graded
GradedRows == {gradedIdx[k] : k \in 1..Len(gradedIdx)}

\* the normalized name of each of the first n rows; None for a row the first
\* pass does not consider: one before the starting index, one without a
\* name, the answer key's
RECURSIVE NamesUpTo(_)
NamesUpTo(n) ==
    IF n = 0 THEN <<>>
    ELSE Append(NamesUpTo(n - 1),
                IF n >= start_idx /\ NameAt(n) # "" /\ n # answer_key_idx
                THEN normalize_name(NameAt(n)) ELSE None)

\* the rows the first pass considers, name[i] being the normalized name of
\* row i
Eligible(name) == {i \in 1..Len(name) : name[i] # None}

\* the rows with the normalized name of row i
SameName(name, i) == {j \in 1..Len(name) : name[j] = name[i]}

\* the last row with the normalized name of row i
LastOf(name, i) == CHOOSE j \in SameName(name, i) : \A k \in SameName(name, i) : k <= j

\* the cohort of row i is the one the run is filtered by, if it is filtered
InSelectedCohort(i) ==
    filter_by_program = NoInt
    \/ (i \in DOMAIN idx_to_cluster /\ idx_to_cluster[i] = filter_by_program)

\* no row is graded twice, only rows the first pass considers are graded, and
\* the answer key's row is not
GradedAreEligible(name) ==
    /\ \A k, l \in 1..Len(gradedIdx) : k # l => gradedIdx[k] # gradedIdx[l]
    /\ GradedRows \subseteq Eligible(name)
    /\ answer_key_idx \notin GradedRows

\* of every name, the last row is graded and no other
LatestOfEveryName(name) ==
    \A i \in Eligible(name) : GradedRows \cap SameName(name, i) = {LastOf(name, i)}

\* of every name, the last row is graded and no other when it is in the
\* selected cohort, and no row otherwise
LatestUnlessFiltered(name) ==
    \A i \in Eligible(name) :
        GradedRows \cap SameName(name, i) =
            IF InSelectedCohort(LastOf(name, i)) THEN {LastOf(name, i)} ELSE {}

Fatal ==
    \/ ~csv.exists
    \/ csv.rows = <<>>
    \/ detect_name_field(csv.headers) = None
    \/ detect_question_columns(csv.headers) = <<>>
    \/ find_answer_key(csv.rows, detect_name_field(csv.headers)) = NoInt

\* the report went to the console and to results.txt
ReportWritten == fileReport # NotWritten /\ consoleReport # NotWritten

\* C3: a run writes the report if and only if none of the four fatal
\* preconditions holds; rows without a parseable timestamp, up to every row
\* of a file with a timestamp column, never abort the run.
C3_ReportUnlessFatal == Ended => (ReportWritten <=> ~Fatal)

\* the positions of the questions row i misses: those whose trimmed answer
\* is not the answer key row's trimmed answer
MissedPositions(i) ==
    {q \in 1..Len(question_cols) :
         Strip(rows[i][question_cols[q]]) # Strip(rows[answer_key_idx][question_cols[q]])}

\* the result of a row that misses the positions of S
ExpectedResult(i, S) ==
    NameAt(i) \o ": "
    \o (IF S = {} THEN "All correct!"
        ELSE Join([k \in 1..Cardinality(S) |-> ToString(Ascending(S)[k])], ", "))

\* C4: the result of every graded row lists exactly the positions, in
\* ascending order, of the questions whose trimmed answer differs (case
\* counting) from the answer key's trimmed answer, and is 'All correct!'
\* exactly when there is none.
C4_MissedAreTheDifferences ==
    Graded2 =>
        /\ Len(results) = Len(gradedIdx)
        /\ \A k \in 1..Len(gradedIdx) :
               results[k] = ExpectedResult(gradedIdx[k], MissedPositions(gradedIdx[k]))

\* a run where one row is all correct only because answers are trimmed, and
\* another misses both questions
C4_Witness ==
    /\ Graded2
    /\ \E k, l \in 1..Len(gradedIdx) :
           /\ MissedPositions(gradedIdx[k]) = {}
           /\ \E q \in 1..Len(question_cols) :
                  rows[gradedIdx[k]][question_cols[q]] # rows[answer_key_idx][question_cols[q]]
           /\ MissedPositions(gradedIdx[l]) = {1, 2}
           /\ results[l] = NameAt(gradedIdx[l]) \o ": 1, 2"

\* a roster was loaded and a respondent was put in a group bucket
GroupingOccurred == group_definitions # <<>> /\ gradedIdx # <<>>

\* cohort detection succeeded
CohortsDetected == cluster_info # <<>>

\* body is made of group sections, those of group_results
ByGroup(body) ==
    /\ body.partition = "group" /\ body.lines = <<>> /\ body.sections # <<>>
    /\ \A n \in 1..Len(body.sections) :
           /\ body.sections[n].period = ""
           /\ \E m \in 1..Len(group_results) :
                  /\ group_results[m].key = body.sections[n].title
                  /\ group_results[m].items = body.sections[n].lines

\* body is made of cohort sections, those of program_results
ByCohort(body) ==
    /\ body.partition = "program" /\ body.lines = <<>>
    /\ \A n \in 1..Len(body.sections) :
           /\ body.sections[n].period # ""
           /\ \E m \in 1..Len(program_results) :
                  /\ cluster_info[program_results[m].key].name = body.sections[n].title
                  /\ program_results[m].items = body.sections[n].lines

\* body is the flat list of the results in processing order
Flat(body) == body.partition = "flat" /\ body.sections = <<>> /\ body.lines = results

C6_OneResultPerPerson ==
    Graded2 =>
        \A k, l \in 1..Len(gradedIdx) :
            k # l => ~names_match(NameAt(gradedIdx[k]), NameAt(gradedIdx[l]), DefaultThreshold)

\* the result lines of the sections from the n-th on, in order
RECURSIVE LinesOfSections(_, _)
LinesOfSections(sections, n) ==
    IF n > Len(sections) THEN <<>>
    ELSE sections[n].lines \o LinesOfSections(sections, n + 1)

\* the sum of the 'Students:' counts of the sections from the n-th on
RECURSIVE StudentsOfSections(_, _)
StudentsOfSections(sections, n) ==
    IF n > Len(sections) THEN 0
    ELSE sections[n].students + StudentsOfSections(sections, n + 1)

\* how often x occurs in list
Occurrences(list, x) == Cardinality({k \in 1..Len(list) : list[k] = x})

\* shown, the result lines of a report body, holds every result once
ShownOnce(shown) ==
    /\ Len(shown) = Len(results)
    /\ \A k \in 1..Len(results) : Occurrences(shown, results[k]) = Occurrences(results, results[k])

\* C11: in every run that writes a report, under every partitioning, every
\* result counted in 'Total students checked' appears exactly once in the
\* report body, and the 'Students:' counts of the sections sum to that total;
\* this includes the respondents whose latest row has no cohort.
C11_EveryResultShownOnce ==
    pc = "done" =>
        /\ fileReport[1].header.total = Len(results)
        /\ ShownOnce(fileReport[1].body.lines \o LinesOfSections(fileReport[1].body.sections, 1))
        /\ fileReport[1].body.partition # "flat" =>
               StudentsOfSections(fileReport[1].body.sections, 1) = fileReport[1].header.total

====
